---- MODULE Spec2Model ----
(***************************************************************************)
(* Model of go.didenko.com/fst: the temporary-directory lifecycle          *)
(* (TempInitDir, TempInitChdir, TempCloneDir, TempCloneChdir,              *)
(* TempCreateChdir and the teardown closures they return) and the file     *)
(* rank functions with their composition Less.                             *)
(*                                                                         *)
(* A path is a sequence of naturals: <<0>> is the directory the process    *)
(* starts in, <<i>> (i >= 1) is the i-th directory ioutil.TempDir made,    *)
(* and <<i, n, ...>> are entries below it; <<>> stands for the empty       *)
(* string.  A mode is the owner digit of the permission bits (r=4, w=2,    *)
(* x=1); the process owns every entry it sees.                             *)
(***************************************************************************)
EXTENDS Integers, Sequences, FiniteSets, TLC

\* ------------------------------------------------------------- bounds
MaxTemps == 2
MaxRuns == 2
MaxCallerOps == 3
MaxDepth == 3
MaxChain == 2
MaxContent == 2

\* Entry names inside a directory, in the order readDirNames sorts them.
NameSeq == <<1, 2>>
\* Directory modes the caller gives: rwx, r-x and r-- (read-only), --- (no access).
DirModes == {7, 5, 4, 0}
\* 0700, the mode the teardown restores on every directory it visits.
OwnerRWX == 7
DirEntry(m) == [kind |-> "dir", mode |-> m]
FileEntry == [kind |-> "file", mode |-> 6]

VARIABLES
    fs,          \* the filesystem: path -> [kind, mode], for the entries that exist
    cwd,         \* the process working directory (process-wide)
    nextTmp,     \* how many temporary directories ioutil.TempDir has made
    handles,     \* teardown closures the caller holds: root -> [td, runs]
    last,        \* what the last operation returned
    log,         \* the system calls the last operation made, in order
    proc,        \* "running", "fatal" (log.Fatalln) or "panic" (nil dereference)
    callerOps,   \* how many entries the caller has made in temp directories
    walkPreRead, \* TRUE: filepath.Walk lists a directory before calling walkFn on it
    cmp          \* one comparison: its operands, its chain, and what Less did

vars == <<fs, cwd, nextTmp, handles, last, log, proc, callerOps, walkPreRead, cmp>>

\* ------------------------------------------------------------- paths and modes
OrigDir == <<0>>
NoPath == <<>>

Parent(p) == SubSeq(p, 1, Len(p) - 1)
IsPrefix(p, q) == Len(p) <= Len(q) /\ SubSeq(q, 1, Len(p)) = p
Under(p, q) == Len(p) < Len(q) /\ IsPrefix(p, q)

HasR(m) == m \div 4 = 1
HasW(m) == (m \div 2) % 2 = 1
HasX(m) == m % 2 = 1

Exists(f, p) == p \in DOMAIN f
IsDir(f, p) == Exists(f, p) /\ f[p].kind = "dir"
\* Some ancestor directory of p cannot be searched (EACCES on path resolution).
Blocked(f, p) ==
    \E n \in 1..(Len(p) - 1) :
        LET a == SubSeq(p, 1, n) IN IsDir(f, a) /\ ~HasX(f[a].mode)
LstatOk(f, p) == Exists(f, p) /\ ~Blocked(f, p)
\* The scratch location that holds the top-level directories is writable.
ParentWritable(f, p) == Len(p) <= 1 \/ (IsDir(f, Parent(p)) /\ HasW(f[Parent(p)].mode))
ChildSeq(f, p) ==
    SelectSeq([i \in 1..Len(NameSeq) |-> Append(p, NameSeq[i])], LAMBDA q : q \in DOMAIN f)
ReadDirOk(f, p) == IsDir(f, p) /\ ~Blocked(f, p) /\ HasR(f[p].mode)
Descendants(f, p) == {q \in DOMAIN f : Under(p, q)}

\* F applied to the value of x, with x evaluated once.
Let(x, F(_)) == CHOOSE y \in {F(v) : v \in {x}} : TRUE

RemoveEntry(f, p) == [q \in DOMAIN f \ {p} |-> f[q]]
PutEntry(f, p, e) == [q \in DOMAIN f \cup {p} |-> IF q = p THEN e ELSE f[q]]

\* ------------------------------------------------------------- system calls
\* A world is [fs, cwd, log, err, out]: err is the last call's error, out is
\* "ok" while the process runs, "fatal" after log.Fatalln, "panic" after a
\* nil dereference.
Event(c, p, ok, old) == [call |-> c, path |-> p, ok |-> ok, old |-> old]
Logged(w, c, p, ok, old) == [w EXCEPT !.log = Append(@, Event(c, p, ok, old)), !.err = ~ok]

OsChmod(w, p, m) ==
    IF LstatOk(w.fs, p)
    THEN [Logged(w, "chmod", p, TRUE, w.fs[p].mode) EXCEPT !.fs = [@ EXCEPT ![p].mode = m]]
    ELSE Logged(w, "chmod", p, FALSE, 0)

CanUnlink(f, p) ==
    /\ LstatOk(f, p)
    /\ ParentWritable(f, p)
    /\ (f[p].kind = "dir" => Descendants(f, p) = {})

OsRemove(w, p) ==
    IF CanUnlink(w.fs, p)
    THEN [Logged(w, "remove", p, TRUE, 0) EXCEPT !.fs = RemoveEntry(@, p)]
    ELSE Logged(w, "remove", p, FALSE, 0)

RECURSIVE RemoveAllFs(_, _), RemoveAllKids(_, _)
\* os.RemoveAll on a filesystem value: [fs, ok].  It never changes a mode.
RemoveAllFs(f, p) ==
    IF ~Exists(f, p) THEN [fs |-> f, ok |-> ~Blocked(f, p)]
    ELSE IF Blocked(f, p) THEN [fs |-> f, ok |-> FALSE]
    ELSE IF CanUnlink(f, p) THEN [fs |-> RemoveEntry(f, p), ok |-> TRUE]
    ELSE IF f[p].kind # "dir" \/ ~HasR(f[p].mode) THEN [fs |-> f, ok |-> FALSE]
    ELSE Let(RemoveAllKids(f, ChildSeq(f, p)), LAMBDA r :
            IF CanUnlink(r.fs, p)
            THEN [fs |-> RemoveEntry(r.fs, p), ok |-> TRUE]
            ELSE [fs |-> r.fs, ok |-> FALSE])
RemoveAllKids(f, kids) ==
    IF kids = <<>> THEN [fs |-> f, ok |-> TRUE]
    ELSE Let(RemoveAllFs(f, Head(kids)), LAMBDA r :
         Let(RemoveAllKids(r.fs, Tail(kids)), LAMBDA s :
            [fs |-> s.fs, ok |-> r.ok /\ s.ok]))

\* old: the number of entries still below p when the call starts.
OsRemoveAll(w, p) ==
    Let(RemoveAllFs(w.fs, p), LAMBDA r :
        [Logged(w, "removeall", p, r.ok, Cardinality(Descendants(w.fs, p)))
            EXCEPT !.fs = r.fs])

\* fault: the call fails for a reason outside the model (EIO, ENOMEM, a race).
OsChdir(w, p, fault) ==
    IF ~fault /\ IsDir(w.fs, p) /\ ~Blocked(w.fs, p) /\ HasX(w.fs[p].mode)
    THEN [Logged(w, "chdir", p, TRUE, 0) EXCEPT !.cwd = p]
    ELSE Logged(w, "chdir", p, FALSE, 0)

OsGetwd(w, fault) ==
    Logged(w, "getwd", w.cwd, ~fault /\ IsDir(w.fs, w.cwd), 0)

OsTempDir(w, fault) ==
    IF fault THEN Logged(w, "tempdir", NoPath, FALSE, 0)
    ELSE [Logged(w, "tempdir", <<nextTmp + 1>>, TRUE, 0)
            EXCEPT !.fs = PutEntry(@, <<nextTmp + 1>>, DirEntry(OwnerRWX))]

\* ------------------------------------------------------------- filepath.Walk
\* A walk state is [w, dirs, stop]: the world, the directories the callback
\* recorded, and "no", "err" (the callback returned an error, so Walk returns
\* it) or "panic" (the callback dereferenced a nil FileInfo).

\* The callback handed to filepath.Walk.  fi is "nil", "dir" or "file"; the
\* callback never reads er.
WalkFn(st, fn, fi, er) ==
    IF fi = "nil" THEN [st EXCEPT !.stop = "panic"]
    ELSE IF fi = "dir"
    THEN Let(OsChmod(st.w, fn, OwnerRWX), LAMBDA w1 :
            IF w1.err
            THEN [st EXCEPT !.w = w1, !.stop = "err"]
            ELSE [st EXCEPT !.w = w1, !.dirs = Append(@, fn)])
    ELSE Let(OsRemove(st.w, fn), LAMBDA w1 :
            [st EXCEPT !.w = w1, !.stop = IF w1.err THEN "err" ELSE "no"])

RECURSIVE WalkRec(_, _), WalkKids(_, _)

\* filepath's walk(path, info, walkFn), for a path whose Lstat succeeded.
\* The library calls walkFn on a directory either after listing it
\* (walkPreRead) or before; both are modelled.
WalkRec(st, path) ==
    LET kind == st.w.fs[path].kind
    IN IF walkPreRead
       THEN IF kind # "dir" THEN WalkFn(st, path, kind, FALSE)
            ELSE LET rdErr == ~ReadDirOk(st.w.fs, path)
                     names == ChildSeq(st.w.fs, path)
                 IN Let(WalkFn(st, path, kind, rdErr), LAMBDA s1 :
                        IF rdErr \/ s1.stop # "no" THEN s1 ELSE WalkKids(s1, names))
       ELSE Let(WalkFn(st, path, kind, FALSE), LAMBDA s1 :
               IF s1.stop # "no" \/ kind # "dir" THEN s1
               ELSE IF ~ReadDirOk(s1.w.fs, path) THEN WalkFn(s1, path, kind, TRUE)
               ELSE WalkKids(s1, ChildSeq(s1.w.fs, path)))
WalkKids(st, names) ==
    IF names = <<>> \/ st.stop # "no" THEN st
    ELSE IF ~LstatOk(st.w.fs, Head(names))
    THEN Let(WalkFn(st, Head(names), "nil", TRUE), LAMBDA s1 : WalkKids(s1, Tail(names)))
    ELSE Let(WalkRec(st, Head(names)), LAMBDA s1 : WalkKids(s1, Tail(names)))

Walk(w, root) ==
    LET st == [w |-> w, dirs |-> <<>>, stop |-> "no"]
    IN IF ~LstatOk(w.fs, root) THEN WalkFn(st, root, "nil", TRUE) ELSE WalkRec(st, root)

\* ------------------------------------------------------------- teardown closures
RECURSIVE RemoveDirsButFirst(_, _, _)
\* The removal loop with i > 0 for i >= 0: dirs[0], the root, is left.
RemoveDirsButFirst(w, dirs, i) ==
    IF i <= 1 THEN w
    ELSE Let(OsRemoveAll(w, dirs[i]), LAMBDA w1 :
            IF w1.err THEN [w1 EXCEPT !.out = "fatal"] ELSE RemoveDirsButFirst(w1, dirs, i - 1))

RECURSIVE RemoveDirs(_, _, _)
\* for i := len(dirs) - 1; i >= 0; i-- { os.RemoveAll(dirs[i]) ... }
RemoveDirs(w, dirs, i) ==
    IF i = 0 THEN w
    ELSE Let(OsRemoveAll(w, dirs[i]), LAMBDA w1 :
            IF w1.err THEN [w1 EXCEPT !.out = "fatal"] ELSE RemoveDirs(w1, dirs, i - 1))

\* The closure TempInitDir returns, for the directory root.
InitDirCleanup(w, root) ==
    Let(Walk(w, root), LAMBDA s :
        IF s.stop = "panic" THEN [s.w EXCEPT !.out = "panic"]
        ELSE IF s.stop = "err" THEN [s.w EXCEPT !.out = "fatal"]
        ELSE RemoveDirs(s.w, s.dirs, Len(s.dirs)))

\* ChdirCleanup with its two statements in the other order.
ChdirCleanupRemoveFirst(w, wd, root) ==
    Let(InitDirCleanup(w, root), LAMBDA c :
        IF c.out = "ok" THEN OsChdir(c, wd, FALSE) ELSE c)

\* ChdirCleanup without the os.Chdir(wd).
ChdirCleanupNoRestore(w, wd, root) ==
    InitDirCleanup(w, root)

\* The closure the chdir variants return: os.Chdir(wd), error dropped, then
\* the underlying cleanup.
ChdirCleanup(w, wd, root) ==
    Let(OsChdir(w, wd, FALSE), LAMBDA c : InitDirCleanup(c, root))

\* A teardown value: nil, or a closure over root (and wd when chdir is set).
NilTd == [nil |-> TRUE, root |-> NoPath, chdir |-> FALSE, wd |-> NoPath]
DirTd(root) == [nil |-> FALSE, root |-> root, chdir |-> FALSE, wd |-> NoPath]
ChdirTd(root, wd) == [nil |-> FALSE, root |-> root, chdir |-> TRUE, wd |-> wd]

\* Calling a non-nil teardown value.
RunTd(w, td) ==
    IF td.chdir THEN ChdirCleanup(w, td.wd, td.root) ELSE InitDirCleanup(w, td.root)

\* ------------------------------------------------------------- collaborators
\* A plan is what a collaborator is asked to write: the source tree of
\* TreeCopy, or the tree a TreeCreate config describes, as a sequence of
\* [rel, entry] in creation order (a directory before what it holds).
PlanFile == << [rel |-> <<2>>, entry |-> FileEntry] >>
PlanReadOnly ==
    << [rel |-> <<1>>, entry |-> DirEntry(5)], [rel |-> <<1, 1>>, entry |-> FileEntry] >>
Plans == {<< >>, PlanFile, PlanReadOnly}

RECURSIVE WritePlan(_, _, _, _)
WritePlan(f, base, plan, n) ==
    IF n = 0 THEN f
    ELSE PutEntry(WritePlan(f, base, plan, n - 1), base \o plan[n].rel, plan[n].entry)

\* A collaborator writes the first n entries of plan below base and then
\* stops, reporting a failure when fails is set.
Populate(w, call, base, plan, n, fails) ==
    [Logged(w, call, base, ~fails, n) EXCEPT !.fs = WritePlan(@, base, plan, n)]

\* TreeCopy(src, dst): plan is the tree found at src.
TreeCopy(w, plan, dst, n, fails) == Populate(w, "treecopy", dst, plan, n, fails)
\* TreeCreate(config): plan is the tree config describes; it is made in the
\* working directory.
TreeCreate(w, plan, n, fails) == Populate(w, "treecreate", w.cwd, plan, n, fails)

\* ------------------------------------------------------------- lifecycle operations
\* Each takes the world and the outcomes e of the calls it cannot decide
\* itself, and returns [w, ret, td, err]: the world after it, and its three
\* results.
Result(w, ret, td) == [w |-> w, ret |-> ret, td |-> td, err |-> FALSE]
Failure(w) == [w |-> w, ret |-> NoPath, td |-> NilTd, err |-> TRUE]

TempInitDir(w, e) ==
    LET root == <<nextTmp + 1>>
    IN Let(OsTempDir(w, e.tempDir), LAMBDA t :
          IF t.err THEN Failure(OsRemoveAll(t, NoPath))
          ELSE Result(t, root, DirTd(root)))

\* TempInitChdir handing the cleanup back beside the os.Chdir error.
TempInitChdirLeakyError(w, e) ==
    Let(TempInitDir(w, e), LAMBDA r :
        IF r.err THEN Failure(r.w)
        ELSE Let(OsGetwd(r.w, e.getwd), LAMBDA g :
            IF g.err THEN Failure(RunTd(g, r.td))
            ELSE Let(OsChdir(g, r.ret, e.chdir), LAMBDA c :
                IF c.err THEN [w |-> RunTd(c, r.td), ret |-> r.ret, td |-> r.td, err |-> TRUE]
                ELSE Result(c, g.cwd, ChdirTd(r.td.root, g.cwd)))))

\* TempInitChdir without the os.Chdir(root).
TempInitChdirStaysPut(w, e) ==
    Let(TempInitDir(w, e), LAMBDA r :
        IF r.err THEN Failure(r.w)
        ELSE Let(OsGetwd(r.w, e.getwd), LAMBDA g :
            IF g.err THEN Failure(RunTd(g, r.td))
            ELSE Result(g, g.cwd, ChdirTd(r.td.root, g.cwd))))

TempInitChdir(w, e) ==
    Let(TempInitDir(w, e), LAMBDA r :
        IF r.err THEN Failure(r.w)
        ELSE Let(OsGetwd(r.w, e.getwd), LAMBDA g :
            IF g.err THEN Failure(RunTd(g, r.td))
            ELSE Let(OsChdir(g, r.ret, e.chdir), LAMBDA c :
                IF c.err THEN Failure(RunTd(c, r.td))
                ELSE Result(c, g.cwd, ChdirTd(r.td.root, g.cwd)))))

\* TempCloneDir without the cleanup() on a TreeCopy failure.
TempCloneDirNoCleanup(w, e) ==
    Let(TempInitDir(w, e), LAMBDA r :
        IF r.err THEN Failure(r.w)
        ELSE Let(TreeCopy(r.w, e.plan, r.ret, e.n, e.populate), LAMBDA t :
            IF t.err THEN Failure(t)
            ELSE Result(t, r.ret, r.td)))

TempCloneDir(w, e) ==
    Let(TempInitDir(w, e), LAMBDA r :
        IF r.err THEN Failure(r.w)
        ELSE Let(TreeCopy(r.w, e.plan, r.ret, e.n, e.populate), LAMBDA t :
            IF t.err THEN Failure(RunTd(t, r.td))
            ELSE Result(t, r.ret, r.td)))

\* TempCloneChdir without the cleanup() on an os.Chdir failure.
TempCloneChdirNoCleanup(w, e) ==
    Let(TempCloneDir(w, e), LAMBDA r :
        IF r.err THEN Failure(r.w)
        ELSE Let(OsGetwd(r.w, e.getwd), LAMBDA g :
            IF g.err THEN Failure(RunTd(g, r.td))
            ELSE Let(OsChdir(g, r.ret, e.chdir), LAMBDA c :
                IF c.err THEN Failure(c)
                ELSE Result(c, g.cwd, ChdirTd(r.td.root, g.cwd)))))

TempCloneChdir(w, e) ==
    Let(TempCloneDir(w, e), LAMBDA r :
        IF r.err THEN Failure(r.w)
        ELSE Let(OsGetwd(r.w, e.getwd), LAMBDA g :
            IF g.err THEN Failure(RunTd(g, r.td))
            ELSE Let(OsChdir(g, r.ret, e.chdir), LAMBDA c :
                IF c.err THEN Failure(RunTd(c, r.td))
                ELSE Result(c, g.cwd, ChdirTd(r.td.root, g.cwd)))))

\* TempCreateChdir without the cleanup() on a TreeCreate failure.
TempCreateChdirNoCleanup(w, e) ==
    Let(TempInitChdir(w, e), LAMBDA r :
        IF r.err THEN Failure(r.w)
        ELSE Let(TreeCreate(r.w, e.plan, e.n, e.populate), LAMBDA t :
            IF t.err THEN Failure(t)
            ELSE Result(t, r.ret, r.td)))

TempCreateChdir(w, e) ==
    Let(TempInitChdir(w, e), LAMBDA r :
        IF r.err THEN Failure(r.w)
        ELSE Let(TreeCreate(r.w, e.plan, e.n, e.populate), LAMBDA t :
            IF t.err THEN Failure(RunTd(t, r.td))
            ELSE Result(t, r.ret, r.td)))

\* ------------------------------------------------------------- file ranks
\* A FileInfoPath: name is the base name as a sequence of byte values, type
\* is what the type bits of Mode() say the entry is, mode is the other bits
\* of Mode() (the nine permission bits, and os.ModeSetuid, bit 23), modTime
\* is in nanoseconds.
FileModes == {420, 493, 2^23 + 420}
FileNames == {<<1>>, <<1, 2>>, <<2>>}
FileInfoPaths ==
    [name : FileNames, type : {"dir", "regular"}, size : {0, 1},
     mode : FileModes, modTime : {0, 10000, 10001}]

RECURSIVE StrLess(_, _)
\* Go's < on strings: bytewise, a proper prefix is smaller.
StrLess(a, b) ==
    IF b = << >> THEN FALSE
    ELSE IF a = << >> THEN TRUE
    ELSE IF Head(a) = Head(b) THEN StrLess(Tail(a), Tail(b))
    ELSE Head(a) < Head(b)

\* ByName with <= for <.
ByNameOrEqual(left, right) == left.name = right.name \/ StrLess(left.name, right.name)
ByName(left, right) == StrLess(left.name, right.name)
\* ByDir with its operands exchanged.
ByDirSwapped(left, right) == right.type = "dir" /\ left.type # "dir"
ByDir(left, right) == left.type = "dir" /\ right.type # "dir"
BySize(left, right) ==
    left.type = "regular" /\ right.type = "regular" /\ left.size < right.size
\* -10 * time.Microsecond, in nanoseconds
TimeSlack == 10000
\* ByTime comparing the two times as they are.
ByTimeNoSlack(left, right) == left.modTime < right.modTime
ByTime(left, right) == left.modTime < right.modTime - TimeSlack
\* FileMode.Perm(): the mode masked with os.ModePerm (0777).
Perm(m) == m % 512
\* ByPerm comparing the whole modes.
ByPermWholeMode(left, right) == left.mode < right.mode
ByPerm(left, right) == Perm(left.mode) < Perm(right.mode)

\* A FileRank value, by name.
FileRank == {"ByName", "ByDir", "BySize", "ByTime", "ByPerm"}
Apply(rank, left, right) ==
    CASE rank = "ByName" -> ByName(left, right)
      [] rank = "ByDir" -> ByDir(left, right)
      [] rank = "BySize" -> BySize(left, right)
      [] rank = "ByTime" -> ByTime(left, right)
      [] rank = "ByPerm" -> ByPerm(left, right)

RECURSIVE LessFromNoReturn(_, _, _, _)
\* The loop of Less remembering a true result instead of returning on it.
LessFromNoReturn(left, right, cmps, i) ==
    IF i > Len(cmps) THEN [less |-> FALSE, called |-> << >>]
    ELSE LET r == LessFromNoReturn(left, right, cmps, i + 1)
         IN [less |-> Apply(cmps[i], left, right) \/ r.less, called |-> <<i>> \o r.called]

RECURSIVE LessFrom(_, _, _, _)
\* The loop of Less from position i on: the value returned and the positions
\* of the rank functions it called, in order.
LessFrom(left, right, cmps, i) ==
    IF i > Len(cmps) THEN [less |-> FALSE, called |-> << >>]
    ELSE IF Apply(cmps[i], left, right) THEN [less |-> TRUE, called |-> <<i>>]
    ELSE LET r == LessFrom(left, right, cmps, i + 1)
         IN [less |-> r.less, called |-> <<i>> \o r.called]

Less(left, right, cmps) == LessFrom(left, right, cmps, 1)

\* ------------------------------------------------------------- ByContent
\* A file as ByContent meets it: the bytes it holds and whether os.Open of
\* its path succeeds.
Bytes == {1, 2}
Contents == UNION {[1..n -> Bytes] : n \in 0..MaxContent}
ContentFiles == [content : Contents, openOk : BOOLEAN]

Reverse(s) == [i \in 1..Len(s) |-> s[Len(s) + 1 - i]]

RECURSIVE ContentLoopLeftFirst(_, _)
\* The loop reading the left byte before the right one.
ContentLoopLeftFirst(l, r) ==
    IF l = << >> THEN TRUE
    ELSE IF r = << >> THEN FALSE
    ELSE IF Head(l) = Head(r) THEN ContentLoopLeftFirst(Tail(l), Tail(r))
    ELSE Head(l) < Head(r)

RECURSIVE ContentLoop(_, _)
\* The for loop of the rank function, on what the two buffered readers
\* still hold: the right byte is read first.
ContentLoop(l, r) ==
    IF r = << >> THEN FALSE
    ELSE IF l = << >> THEN TRUE
    ELSE IF Head(l) = Head(r) THEN ContentLoop(Tail(l), Tail(r))
    ELSE Head(l) < Head(r)

\* How a call of the rank function ends: out is "true", "false" or "fatal"
\* (no value is returned), opened lists the files opened, in order, and
\* closed the files closed, in order.
\* t.Fatal(err) without the deferred calls being run.
TFatalNoDefers(opened) == [out |-> "fatal", opened |-> opened, closed |-> << >>]
\* t.Fatal(err): the failure is reported and the goroutine exits, running
\* the deferred calls, last deferred first.
TFatal(opened) == [out |-> "fatal", opened |-> opened, closed |-> Reverse(opened)]
\* return b: the deferred calls run, last deferred first.
ContentReturn(b, opened) ==
    [out |-> IF b THEN "true" ELSE "false", opened |-> opened, closed |-> Reverse(opened)]

\* The rank function ByContent(t) returns.
ByContent(left, right) ==
    IF ~left.openOk THEN TFatal(<< >>)
    ELSE IF ~right.openOk THEN TFatal(<<"left">>)
    ELSE ContentReturn(ContentLoop(left.content, right.content), <<"left", "right">>)

\* ------------------------------------------------------------- actions
World0 == [fs |-> fs, cwd |-> cwd, log |-> << >>, err |-> FALSE, out |-> "ok"]

\* The outcomes an operation's calls may have: which of them fail, and what
\* the collaborator was asked to write and how far it got.
Faults == [tempDir : BOOLEAN, getwd : BOOLEAN, chdir : BOOLEAN,
           plan : {<< >>}, n : {0}, populate : {FALSE}]
PlanFaults ==
    {e \in [tempDir : BOOLEAN, getwd : BOOLEAN, chdir : BOOLEAN,
            plan : Plans, n : 0..2, populate : BOOLEAN] :
        /\ e.n <= Len(e.plan)
        /\ (~e.populate => e.n = Len(e.plan))}

MadeTemp(lg) == \E i \in 1..Len(lg) : lg[i].call = "tempdir" /\ lg[i].ok

\* The caller receives r from operation op.
Return(op, r) ==
    /\ fs' = r.w.fs
    /\ cwd' = r.w.cwd
    /\ log' = r.w.log
    /\ proc' = IF r.w.out = "ok" THEN "running" ELSE r.w.out
    /\ nextTmp' = IF MadeTemp(r.w.log) THEN nextTmp + 1 ELSE nextTmp
    /\ handles' =
          IF r.err \/ r.w.out # "ok" THEN handles
          ELSE [h \in DOMAIN handles \cup {r.td.root} |->
                  IF h = r.td.root THEN [td |-> r.td, runs |-> 0, by |-> op]
                  ELSE handles[h]]
    /\ last' = [op |-> op, ret |-> r.ret, td |-> r.td, err |-> r.err,
                returned |-> r.w.out = "ok", run |-> 0, by |-> op]
    /\ UNCHANGED <<callerOps, walkPreRead, cmp>>

CanCreate == proc = "running" /\ nextTmp < MaxTemps

CallTempInitDir ==
    /\ CanCreate
    /\ \E e \in Faults :
          /\ ~e.getwd /\ ~e.chdir
          /\ \E r \in {TempInitDir(World0, e)} : Return("TempInitDir", r)

CallTempInitChdir ==
    /\ CanCreate
    /\ \E e \in Faults :
          /\ \E r \in {TempInitChdir(World0, e)} : Return("TempInitChdir", r)

CallTempCloneDir ==
    /\ CanCreate
    /\ \E e \in PlanFaults :
          /\ ~e.getwd /\ ~e.chdir
          /\ \E r \in {TempCloneDir(World0, e)} : Return("TempCloneDir", r)

CallTempCloneChdir ==
    /\ CanCreate
    /\ \E e \in PlanFaults :
          /\ \E r \in {TempCloneChdir(World0, e)} : Return("TempCloneChdir", r)

CallTempCreateChdir ==
    /\ CanCreate
    /\ \E e \in PlanFaults :
          /\ \E r \in {TempCreateChdir(World0, e)} : Return("TempCreateChdir", r)

\* The caller invokes a teardown it holds.
Teardown ==
    /\ proc = "running"
    /\ \E h \in DOMAIN handles :
          /\ handles[h].runs < MaxRuns
          /\ \E w \in {RunTd(World0, handles[h].td)} :
                /\ fs' = w.fs
                /\ cwd' = w.cwd
                /\ log' = w.log
                /\ proc' = IF w.out = "ok" THEN "running" ELSE w.out
                /\ handles' = [handles EXCEPT ![h].runs = @ + 1]
                /\ last' = [op |-> "teardown", ret |-> NoPath, td |-> handles[h].td,
                            err |-> FALSE, returned |-> w.out = "ok",
                            run |-> handles[h].runs + 1, by |-> handles[h].by]
          /\ UNCHANGED <<nextTmp, callerOps, walkPreRead, cmp>>

\* The caller's own code fills a temp directory it holds: a directory of
\* some mode, or a file, in a directory that exists.
CallerNote(op) ==
    [op |-> op, ret |-> NoPath, td |-> NilTd, err |-> FALSE,
     returned |-> TRUE, run |-> 0, by |-> op]
CallerTargets ==
    {Append(d, NameSeq[i]) : d \in {q \in DOMAIN fs : IsDir(fs, q)}, i \in 1..Len(NameSeq)}
CallerCan(p) ==
    /\ proc = "running"
    /\ callerOps < MaxCallerOps
    /\ p \notin DOMAIN fs
    /\ Len(p) <= MaxDepth + 1
    /\ <<p[1]>> \in DOMAIN handles
    /\ handles[<<p[1]>>].runs = 0

CallerMkdir ==
    \E p \in CallerTargets, m \in DirModes :
        /\ CallerCan(p)
        /\ fs' = PutEntry(fs, p, DirEntry(m))
        /\ callerOps' = callerOps + 1
        /\ last' = CallerNote("mkdir")
        /\ log' = << >>
        /\ UNCHANGED <<cwd, nextTmp, handles, proc, walkPreRead, cmp>>

CallerWriteFile ==
    \E p \in CallerTargets :
        /\ CallerCan(p)
        /\ fs' = PutEntry(fs, p, FileEntry)
        /\ callerOps' = callerOps + 1
        /\ last' = CallerNote("writefile")
        /\ log' = << >>
        /\ UNCHANGED <<cwd, nextTmp, handles, proc, walkPreRead, cmp>>

NoCmp ==
    [pc |-> "idle", left |-> << >>, right |-> << >>, cmps |-> << >>,
     less |-> FALSE, called |-> << >>]

Init ==
    /\ fs = [p \in {OrigDir} |-> DirEntry(OwnerRWX)]
    /\ cwd = OrigDir
    /\ nextTmp = 0
    /\ handles = [h \in {} |-> [td |-> NilTd, runs |-> 0, by |-> ""]]
    /\ last = CallerNote("start")
    /\ log = << >>
    /\ proc = "running"
    /\ callerOps = 0
    /\ walkPreRead \in BOOLEAN
    /\ cmp = NoCmp

Next ==
    \/ CallTempInitDir
    \/ CallTempInitChdir
    \/ CallTempCloneDir
    \/ CallTempCloneChdir
    \/ CallTempCreateChdir
    \/ Teardown

Spec == Init /\ [][Next]_vars

\* One temp directory, filled by the caller's own code, then torn down.
FirstTempInitDir == nextTmp = 0 /\ CallTempInitDir
FirstTempInitChdir == nextTmp = 0 /\ CallTempInitChdir

TreeNext ==
    \/ FirstTempInitDir
    \/ FirstTempInitChdir
    \/ CallerMkdir
    \/ CallerWriteFile
    \/ Teardown

SpecTree == Init /\ [][TreeNext]_vars

\* The caller's own code takes its permissions off the directory the
\* process started in, os.Chmod(wd, 0), so that os.Chdir into it fails.
CallerLocksOrigDir ==
    /\ proc = "running"
    /\ fs[OrigDir].mode = OwnerRWX
    /\ fs' = [fs EXCEPT ![OrigDir].mode = 0]
    /\ last' = CallerNote("chmod")
    /\ log' = << >>
    /\ UNCHANGED <<cwd, nextTmp, handles, proc, callerOps, walkPreRead, cmp>>

\* The chdir variant and its teardown, with a caller that may lock the
\* original directory in between.
LockNext ==
    \/ CallTempInitChdir
    \/ Teardown
    \/ CallerLocksOrigDir

SpecLock == Init /\ [][LockNext]_vars

\* One call of Less on operands and a chain drawn from the bounded sets.
Chains == UNION {[1..n -> FileRank] : n \in 0..MaxChain}

RankInit ==
    /\ fs = [p \in {OrigDir} |-> DirEntry(OwnerRWX)]
    /\ cwd = OrigDir
    /\ nextTmp = 0
    /\ handles = [h \in {} |-> [td |-> NilTd, runs |-> 0, by |-> ""]]
    /\ last = CallerNote("start")
    /\ log = << >>
    /\ proc = "running"
    /\ callerOps = 0
    /\ walkPreRead = FALSE
    /\ \E l \in FileInfoPaths, r \in FileInfoPaths, c \in Chains :
          cmp = [pc |-> "ready", left |-> l, right |-> r, cmps |-> c,
                 less |-> FALSE, called |-> << >>]

CallLess ==
    /\ cmp.pc = "ready"
    /\ LET r == Less(cmp.left, cmp.right, cmp.cmps)
       IN cmp' = [cmp EXCEPT !.pc = "done", !.less = r.less, !.called = r.called]
    /\ UNCHANGED <<fs, cwd, nextTmp, handles, last, log, proc, callerOps, walkPreRead>>

RankNext == CallLess

SpecRank == RankInit /\ [][RankNext]_vars

\* One call of the rank function ByContent returns on two files.
ContentInit ==
    /\ fs = [p \in {OrigDir} |-> DirEntry(OwnerRWX)]
    /\ cwd = OrigDir
    /\ nextTmp = 0
    /\ handles = [h \in {} |-> [td |-> NilTd, runs |-> 0, by |-> ""]]
    /\ last = CallerNote("start")
    /\ log = << >>
    /\ proc = "running"
    /\ callerOps = 0
    /\ walkPreRead = FALSE
    /\ \E l \in ContentFiles, r \in ContentFiles :
          cmp = [pc |-> "ready", left |-> l, right |-> r, out |-> "",
                 opened |-> << >>, closed |-> << >>]

CallByContent ==
    /\ cmp.pc = "ready"
    /\ \E r \in {ByContent(cmp.left, cmp.right)} :
          cmp' = [cmp EXCEPT !.pc = "done", !.out = r.out,
                             !.opened = r.opened, !.closed = r.closed]
    /\ UNCHANGED <<fs, cwd, nextTmp, handles, last, log, proc, callerOps, walkPreRead>>

ContentNext == CallByContent

SpecContent == ContentInit /\ [][ContentNext]_vars

\* ------------------------------------------------------------- reading the log
Failed(lg, calls) == \E i \in 1..Len(lg) : lg[i].call \in calls /\ ~lg[i].ok
\* The directory ioutil.TempDir made in the operation whose log is lg.
TempOf(lg) ==
    IF MadeTemp(lg)
    THEN lg[CHOOSE i \in 1..Len(lg) : lg[i].call = "tempdir" /\ lg[i].ok].path
    ELSE NoPath
Gone(f, root) == ~Exists(f, root) /\ Descendants(f, root) = {}
\* A collaborator failed after it had written something.
FailedPartWay(lg, call) ==
    \E i \in 1..Len(lg) : lg[i].call = call /\ ~lg[i].ok /\ lg[i].old >= 1
\* The cleanup removed root after the failure of one of calls.
CleanedAfter(lg, calls, root) ==
    \E i, j \in 1..Len(lg) :
        /\ i < j
        /\ lg[i].call \in calls /\ ~lg[i].ok
        /\ lg[j].call = "removeall" /\ lg[j].path = root /\ lg[j].ok

\* ------------------------------------------------------------- claims

\* C1: after a successful TempInitChdir the working directory is the new
\* temp directory and the string returned is the directory that was current
\* before the call; when the returned teardown is then run, the working
\* directory is that returned directory again and the temp directory is gone.
C1_ChdirLifecycle ==
    [][ /\ (last'.op = "TempInitChdir" /\ ~last'.err)
            => /\ cwd' = last'.td.root
               /\ IsDir(fs', cwd')
               /\ last'.ret = cwd
        /\ (last.op = "TempInitChdir" /\ ~last.err
              /\ last'.op = "teardown" /\ last'.td = last.td)
            => /\ proc' = "running"
               /\ cwd' = last.ret
               /\ Gone(fs', last.td.root)
      ]_vars

C1_Witness ==
    /\ last.op = "teardown" /\ last.by = "TempInitChdir" /\ last.run = 1
    /\ proc = "running"
    /\ cwd = last.td.wd
    /\ Gone(fs, last.td.root)

\* C2: when TreeCopy fails inside TempCloneDir, wherever it fails, the temp
\* directory made for the clone, and all it holds, is gone when the call
\* returns.
C2_CloneFailureLeavesNothing ==
    (last.op = "TempCloneDir" /\ Failed(log, {"treecopy"}))
        => /\ last.returned
           /\ last.err
           /\ Gone(fs, TempOf(log))

C2_Witness ==
    /\ last.op = "TempCloneDir"
    /\ FailedPartWay(log, "treecopy")
    /\ last.returned
    /\ Gone(fs, TempOf(log))

\* C3: in TempInitChdir and TempCloneChdir, when os.Getwd or os.Chdir fails
\* after the temp directory was made, the underlying teardown runs before the
\* error is returned: the temp directory is gone and the working directory
\* is what it was before the call.
C3_ChdirFailureCleansUp ==
    [][ (last'.op \in {"TempInitChdir", "TempCloneChdir"}
            /\ Failed(log', {"getwd", "chdir"}))
          => /\ last'.returned
             /\ last'.err
             /\ CleanedAfter(log', {"getwd", "chdir"}, TempOf(log'))
             /\ Gone(fs', TempOf(log'))
             /\ cwd' = cwd
      ]_vars

C3_Witness ==
    /\ last.op = "TempCloneChdir"
    /\ Failed(log, {"chdir"})
    /\ \E i \in 1..Len(log) : log[i].call = "treecopy" /\ log[i].ok /\ log[i].old >= 1
    /\ last.returned
    /\ Gone(fs, TempOf(log))

\* C4: when TreeCreate fails inside TempCreateChdir, the composite teardown
\* runs before the error is returned: the working directory is what it was
\* before the call, and the temp directory is gone with whatever the builder
\* had made in it.
C4_CreateFailureRunsFullTeardown ==
    [][ (last'.op = "TempCreateChdir" /\ Failed(log', {"treecreate"}))
          => /\ last'.returned
             /\ last'.err
             /\ cwd' = cwd
             /\ Gone(fs', TempOf(log'))
             /\ \E i, j \in 1..Len(log') :
                   /\ i < j
                   /\ log'[i].call = "treecreate" /\ ~log'[i].ok
                   /\ log'[j].call = "chdir" /\ log'[j].ok /\ log'[j].path = cwd
      ]_vars

C4_Witness ==
    /\ last.op = "TempCreateChdir"
    /\ FailedPartWay(log, "treecreate")
    /\ last.returned
    /\ cwd # TempOf(log)
    /\ Gone(fs, TempOf(log))

\* C5: each of the five lifecycle operations returns an error exactly when
\* one of its steps failed, and then returns the empty string and a nil
\* teardown; without an error it returns a non-nil teardown.
LifecycleOps ==
    {"TempInitDir", "TempInitChdir", "TempCloneDir", "TempCloneChdir", "TempCreateChdir"}
StepCalls == {"tempdir", "getwd", "chdir", "treecopy", "treecreate"}

C5_ErrorMeansNothingReturned ==
    (last.op \in LifecycleOps /\ last.returned)
        => /\ last.err = Failed(log, StepCalls)
           /\ last.err => (last.ret = NoPath /\ last.td.nil)
           /\ ~last.err => (~last.td.nil /\ last.ret # NoPath)

C5_Witness ==
    /\ last.op = "TempInitChdir"
    /\ last.returned
    /\ Failed(log, {"chdir"})
    /\ last.err /\ last.ret = NoPath /\ last.td.nil

\* C6: the teardown the chdir variants return first restores the working
\* directory it captured and only then starts the underlying cleanup: its
\* first call is the os.Chdir(wd), and every later call belongs to the
\* removal.
C6_RestoreBeforeRemove ==
    (last.op = "teardown" /\ last.td.chdir)
        => /\ Len(log) >= 1
           /\ log[1].call = "chdir" /\ log[1].path = last.td.wd
           /\ \A i \in 2..Len(log) : log[i].call \in {"chmod", "remove", "removeall"}

C6_Witness ==
    /\ last.op = "teardown" /\ last.td.chdir /\ last.run = 1
    /\ log[1].call = "chdir" /\ log[1].ok
    /\ \E i \in 2..Len(log) : log[i].call = "remove" /\ log[i].ok
    /\ Gone(fs, last.td.root)

\* C7: any tree in the temp directory that holds a read-only nested
\* directory (no owner write permission) with something inside is removed
\* whole by the teardown, temp root included, with no fatal error and no
\* permission change by the caller.
ReadOnly(m) == HasR(m) /\ ~HasW(m)
HoldsReadOnlyDir(f, root) ==
    \E d \in Descendants(f, root) :
        IsDir(f, d) /\ ReadOnly(f[d].mode) /\ Descendants(f, d) # {}

C7_ReadOnlyTreeRemoved ==
    [][ (last'.op = "teardown" /\ last'.run = 1
            /\ HoldsReadOnlyDir(fs, last'.td.root))
          => /\ proc' = "running"
             /\ Gone(fs', last'.td.root)
      ]_vars

\* What does hold of C7's trees: when, besides, every directory of the tree
\* can be listed by its owner, the teardown removes the tree whole and ends
\* without a fatal error, whichever way filepath.Walk orders its calls.
AllListable(f, root) ==
    \A q \in Descendants(f, root) \cup {root} : IsDir(f, q) => HasR(f[q].mode)

ListableReadOnlyTreeRemoved ==
    [][ (last'.op = "teardown" /\ last'.run = 1
            /\ HoldsReadOnlyDir(fs, last'.td.root)
            /\ AllListable(fs, last'.td.root))
          => /\ proc' = "running"
             /\ Gone(fs', last'.td.root)
      ]_vars

ListableReadOnlyTreeWitness ==
    /\ last.op = "teardown" /\ last.run = 1
    /\ proc = "running"
    /\ Gone(fs, last.td.root)
    /\ \E i, j \in 1..Len(log) :
          /\ log[i].call = "chmod" /\ log[i].ok /\ ReadOnly(log[i].old)
          /\ Len(log[i].path) >= 2
          /\ log[j].call = "remove" /\ log[j].ok /\ Under(log[i].path, log[j].path)

\* C8: invoking the teardown of TempInitDir a second time, after the first
\* invocation removed the directory, ends without a failure.
C8_SecondTeardownHarmless ==
    (last.op = "teardown" /\ last.by = "TempInitDir" /\ last.run = 2)
        => proc = "running"

\* C9: Less is the short-circuit disjunction of its chain taken left to
\* right: it returns true exactly when some rank function of the chain is
\* true of (left, right), it calls the rank functions in order up to the
\* first that is true and none after it, and on an empty chain it returns
\* false.
Hits == {i \in 1..Len(cmp.cmps) : Apply(cmp.cmps[i], cmp.left, cmp.right)}
FirstHit == CHOOSE i \in Hits : \A j \in Hits : i <= j

C9_LessIsShortCircuitOr ==
    cmp.pc = "done"
        => /\ cmp.less = (Hits # {})
           /\ cmp.called = [i \in 1..(IF Hits = {} THEN Len(cmp.cmps) ELSE FirstHit) |-> i]
           /\ cmp.cmps = << >> => ~cmp.less

C9_Witness ==
    /\ cmp.pc = "done"
    /\ Len(cmp.cmps) = 2
    /\ Hits = {1, 2}
    /\ cmp.less
    /\ cmp.called = <<1>>

\* The place of each name of FileNames in bytewise order.
NamePlace(n) == CASE n = <<1>> -> 1 [] n = <<1, 2>> -> 2 [] n = <<2>> -> 3
DirThenName == cmp.pc = "done" /\ cmp.cmps = <<"ByDir", "ByName">>

\* C10 as stated: Less(d, f, ByDir, ByName) is true and Less(f, d, ByDir,
\* ByName) is false for every directory d and non-directory f, whatever
\* their names; for two directories the result is ByName's.
C10_DirectoryAlwaysFirst ==
    DirThenName
        => /\ (cmp.left.type = "dir" /\ cmp.right.type # "dir") => cmp.less
           /\ (cmp.left.type # "dir" /\ cmp.right.type = "dir") => ~cmp.less
           /\ (cmp.left.type = "dir" /\ cmp.right.type = "dir")
                => cmp.less = (NamePlace(cmp.left.name) < NamePlace(cmp.right.name))

\* C10 as amended: Less(d, f, ByDir, ByName) is true for every directory d
\* and non-directory f, whatever their names; Less(f, d, ByDir, ByName) is
\* what ByName says of (f, d), true exactly when f's name is the smaller;
\* for two directories the result is ByName's.
C10_DirectoryFirstOneWay ==
    DirThenName
        => /\ (cmp.left.type = "dir" /\ cmp.right.type # "dir") => cmp.less
           /\ (cmp.left.type # "dir" /\ cmp.right.type = "dir")
                => cmp.less = (NamePlace(cmp.left.name) < NamePlace(cmp.right.name))
           /\ (cmp.left.type = "dir" /\ cmp.right.type = "dir")
                => cmp.less = (NamePlace(cmp.left.name) < NamePlace(cmp.right.name))

C10_Witness ==
    /\ DirThenName
    /\ cmp.left.type # "dir" /\ cmp.right.type = "dir"
    /\ NamePlace(cmp.left.name) < NamePlace(cmp.right.name)
    /\ cmp.less
    /\ cmp.called = <<1, 2>>

\* C11: when both files open, the rank function of ByContent returns true
\* exactly when the left file's bytes come strictly before the right file's
\* in lexicographic byte order, a proper prefix coming before its
\* extensions: false when the right file runs out first or both run out
\* together, true when the left runs out first, else what the first
\* differing byte says, whatever the two lengths; and it is never true both
\* ways.
CommonPrefix(l, r, k) ==
    /\ k <= Len(l) /\ k <= Len(r)
    /\ \A i \in 1..k : l[i] = r[i]
LexLess(l, r) ==
    \E k \in 0..Len(l) :
        /\ CommonPrefix(l, r, k)
        /\ \/ k = Len(l) /\ k < Len(r)
           \/ k < Len(l) /\ k < Len(r) /\ l[k + 1] < r[k + 1]
BothOpened == cmp.pc = "done" /\ cmp.left.openOk /\ cmp.right.openOk

C11_ByContentIsLexicographic ==
    BothOpened
        => LET l == cmp.left.content
               r == cmp.right.content
           IN /\ cmp.out \in {"true", "false"}
              /\ (cmp.out = "true") = LexLess(l, r)
              /\ CommonPrefix(l, r, Len(r)) => cmp.out = "false"
              /\ (CommonPrefix(l, r, Len(l)) /\ Len(l) < Len(r)) => cmp.out = "true"
              /\ ~(cmp.out = "true" /\ ByContent(cmp.right, cmp.left).out = "true")

C11_Witness ==
    /\ BothOpened
    /\ Len(cmp.right.content) >= 1
    /\ Len(cmp.left.content) > Len(cmp.right.content)
    /\ cmp.left.content[1] < cmp.right.content[1]
    /\ cmp.out = "true"

\* C12: ByTime(a, b) is true exactly when a's modification time is more
\* than 10 microseconds before b's; two times at most 10 microseconds apart
\* rank as not less both ways, and ByTime is never true both ways.
OnlyRank(rank) == cmp.pc = "done" /\ cmp.cmps = <<rank>>

C12_ByTimeTolerance ==
    OnlyRank("ByTime")
        => LET a == cmp.left.modTime
               b == cmp.right.modTime
           IN /\ cmp.less = (a + 10000 < b)
              /\ (a - b <= 10000 /\ b - a <= 10000)
                    => ~cmp.less /\ ~ByTime(cmp.right, cmp.left)
              /\ ~(cmp.less /\ ByTime(cmp.right, cmp.left))

C12_Witness ==
    /\ OnlyRank("ByTime")
    /\ cmp.right.modTime - cmp.left.modTime = 10000
    /\ ~cmp.less
    /\ cmp.called = <<1>>

\* C13: ByPerm depends on the low nine bits of each mode only: it is true
\* exactly when a's mode masked to 0777 is the smaller number, and changing
\* the higher bits of either mode (the type bits, setuid) never changes it.
LowNine(m) == m - 512 * (m \div 512)

C13_ByPermLowNineBits ==
    OnlyRank("ByPerm")
        => /\ cmp.less = (LowNine(cmp.left.mode) < LowNine(cmp.right.mode))
           /\ \A ml, mr \in FileModes, tl, tr \in {"dir", "regular"} :
                 (LowNine(ml) = LowNine(cmp.left.mode) /\ LowNine(mr) = LowNine(cmp.right.mode))
                    => ByPerm([cmp.left EXCEPT !.mode = ml, !.type = tl],
                              [cmp.right EXCEPT !.mode = mr, !.type = tr]) = cmp.less

C13_Witness ==
    /\ OnlyRank("ByPerm")
    /\ cmp.left.mode > cmp.right.mode
    /\ LowNine(cmp.left.mode) < LowNine(cmp.right.mode)
    /\ cmp.less

NameThenDir == cmp.pc = "done" /\ cmp.cmps = <<"ByName", "ByDir">>
LeftDirOnly == cmp.left.type = "dir" /\ cmp.right.type # "dir"

\* C14 as stated: for every pair of entries whose names differ,
\* Less(a, b, ByName, ByDir) is ByName(a, b).
C14_PlainNameOrdering ==
    (NameThenDir /\ cmp.left.name # cmp.right.name)
        => cmp.less = (NamePlace(cmp.left.name) < NamePlace(cmp.right.name))

\* C14 as amended: Less(a, b, ByName, ByDir) is true when a's name is the
\* smaller, and otherwise, names equal or a's name the larger, it is
\* ByDir(a, b): true exactly when a is a directory and b is not.
C14_NameThenDirectory ==
    NameThenDir
        => /\ NamePlace(cmp.left.name) < NamePlace(cmp.right.name) => cmp.less
           /\ NamePlace(cmp.left.name) >= NamePlace(cmp.right.name)
                => cmp.less = LeftDirOnly

C14_Witness ==
    /\ NameThenDir
    /\ NamePlace(cmp.left.name) > NamePlace(cmp.right.name)
    /\ LeftDirOnly
    /\ cmp.less
    /\ cmp.called = <<1, 2>>

\* C15: when two test cases interleave their calls of a chdir variant and
\* of its teardown, one of them is left with a live handle whose temp
\* directory is not the working directory: every chdir variant that
\* succeeds while another chdir handle is live takes the working directory
\* away from that handle.
ChdirOps == {"TempInitChdir", "TempCloneChdir", "TempCreateChdir"}
LiveChdir(hs) == {h \in DOMAIN hs : hs[h].td.chdir /\ hs[h].runs = 0}

C15_InterleavedChdirInterferes ==
    [][ (last'.op \in ChdirOps /\ ~last'.err /\ LiveChdir(handles) # {})
          => \A h \in LiveChdir(handles) : h \in LiveChdir(handles') /\ cwd' # h
      ]_vars

C15_Witness ==
    /\ last.op \in ChdirOps /\ ~last.err
    /\ \E h1, h2 \in LiveChdir(handles) : h1 # h2 /\ cwd = h2 /\ cwd # h1

\* C16: the teardown removes in two phases.  The walk sets every directory
\* to 0700 and records it, and removes every non-directory at once; then
\* the recorded directories are removed in reverse order, so that whenever a
\* directory is removed nothing is left below it.
PathsOf(lg, call) ==
    LET s == SelectSeq(lg, LAMBDA e : e.call = call)
    IN [i \in 1..Len(s) |-> s[i].path]
FilesBelow(f, root) == {q \in Descendants(f, root) : f[q].kind = "file"}
TwoPhases(lg, f, root) ==
    /\ PathsOf(lg, "removeall") = Reverse(PathsOf(lg, "chmod"))
    /\ \A i, j \in 1..Len(lg) :
          (lg[i].call \in {"chmod", "remove"} /\ lg[j].call = "removeall") => i < j
    /\ \A q \in FilesBelow(f, root) :
          \E i \in 1..Len(lg) : lg[i].call = "remove" /\ lg[i].path = q /\ lg[i].ok
    /\ \A i \in 1..Len(lg) : lg[i].call = "removeall" => lg[i].old = 0

C16_TwoPhaseRemoval ==
    [][ (last'.op = "teardown" /\ last'.run = 1 /\ proc' = "running")
          => TwoPhases(log', fs, last'.td.root)
      ]_vars

\* What does hold of C16: the two phases are kept whenever every directory
\* of the tree can be listed by its owner.
ListableTwoPhaseRemoval ==
    [][ (last'.op = "teardown" /\ last'.run = 1 /\ proc' = "running"
            /\ AllListable(fs, last'.td.root))
          => TwoPhases(log', fs, last'.td.root)
      ]_vars

\* C17: an error met in either phase of the teardown ends in the fatal
\* outcome: an error the walk reports for an entry as much as a failed
\* chmod, a failed file removal or a failed directory removal.
\* filepath.Walk hands the callback an error for a directory of the temp
\* root that it listed, in vain, before calling the callback.
WalkReportsError(f, root) ==
    /\ walkPreRead
    /\ \E d \in Descendants(f, root) :
          Parent(d) = root /\ IsDir(f, d) /\ ~ReadDirOk(f, d)

C17_NoErrorSwallowed ==
    [][ (last'.op = "teardown" /\ last'.run = 1)
          => /\ Failed(log', {"chmod", "remove", "removeall"}) => proc' = "fatal"
             /\ WalkReportsError(fs, last'.td.root) => proc' = "fatal"
      ]_vars

\* C18: every file the rank function of ByContent opens is closed before
\* the call ends, whichever way it ends: returning true, returning false,
\* or aborting because the right file does not open when the left one is
\* already open; and when either file does not open the failure is
\* reported and no boolean is returned.
AsSet(seq) == {seq[i] : i \in 1..Len(seq)}

C18_HandlesReleased ==
    cmp.pc = "done"
        => /\ AsSet(cmp.closed) = AsSet(cmp.opened)
           /\ Len(cmp.closed) = Len(cmp.opened)
           /\ (cmp.out = "fatal") = (~cmp.left.openOk \/ ~cmp.right.openOk)
           /\ (cmp.left.openOk /\ ~cmp.right.openOk) => cmp.opened = <<"left">>
           /\ (cmp.left.openOk /\ cmp.right.openOk) => cmp.opened = <<"left", "right">>
           /\ ~cmp.left.openOk => cmp.opened = << >>

C18_Witness ==
    /\ cmp.pc = "done"
    /\ cmp.left.openOk /\ ~cmp.right.openOk
    /\ cmp.out = "fatal"
    /\ cmp.opened = <<"left">> /\ cmp.closed = <<"left">>

\* C19: in the teardown of a chdir variant the temp directory is never
\* removed while it is the working directory: when the underlying removal
\* starts the working directory is the one the handle captured, whatever
\* the os.Chdir(wd) before it did, failing included.  (The removal never
\* changes the working directory, so the one it starts in is the one the
\* teardown ends in.)
C19_RemovalStartsInOriginalDir ==
    [][ (last'.op = "teardown" /\ last'.td.chdir /\ last'.run = 1)
          => /\ cwd' = last'.td.wd
             /\ cwd' # last'.td.root
      ]_vars

\* C20: chdir handles created one inside the other in one thread and torn
\* down in reverse order.  A teardown that runs in its own temp directory
\* (what was created after it is torn down already) while the directory it
\* captured is still there (the original one, or the temp directory of a
\* handle that is still live) restores the captured directory and removes
\* its temp directory; and after the last such teardown the working
\* directory is the original one and no temp directory exists.
AllTornDown(hs) == \A h \in DOMAIN hs : hs[h].td.chdir /\ hs[h].runs >= 1

C20_NestedReverseTeardown ==
    [][ (/\ last'.op = "teardown" /\ last'.td.chdir /\ last'.run = 1
         /\ cwd = last'.td.root
         /\ last'.td.wd \in {OrigDir} \cup (LiveChdir(handles) \ {last'.td.root}))
          => /\ proc' = "running"
             /\ cwd' = last'.td.wd
             /\ Gone(fs', last'.td.root)
             /\ (last'.td.wd = OrigDir /\ AllTornDown(handles'))
                   => cwd' = OrigDir /\ DOMAIN fs' = {OrigDir}
      ]_vars

C20_Witness ==
    /\ last.op = "teardown" /\ last.td.chdir /\ last.run = 1
    /\ last.td.wd = OrigDir
    /\ AllTornDown(handles)
    /\ \E h \in DOMAIN handles : handles[h].td.wd = last.td.root /\ handles[h].runs = 1
    /\ log[1].call = "chdir" /\ log[1].ok
    /\ cwd = OrigDir
    /\ DOMAIN fs = {OrigDir}
    /\ proc = "running"

====
